---- MODULE Spec2Model ----
(***************************************************************************)
(* Model of the swissimage style-transfer pipeline                         *)
(* (style_transfer_swissimage.py): tile addressing, the per-tile           *)
(* generate / score / retry loop and the batch loop of main().             *)
(*                                                                         *)
(* Units.  Planar coordinates are reals in metres in the source; here they *)
(* are integers in centimetres, so that every tile span (256 * resolution) *)
(* of the resolution table is an integer and the divisions are exact.      *)
(* SSIM scores are reals in [-1, 1] in the source; here they are integers  *)
(* in hundredths (0.35 is 35).                                             *)
(***************************************************************************)
EXTENDS Integers, Sequences, FiniteSets, TLC

(* ------------------------------ bounds --------------------------------- *)

\* tile indices -MaxTileIdx .. MaxTileIdx are covered by the addressing inputs
MaxTileIdx == 2

\* bounding boxes of main() span columns/rows 0 .. MaxBoxIdx
MaxBoxIdx == 1

\* tile indices 0 .. MaxIndex are written to and parsed from file names
MaxIndex == 12

\* the tile store of the stitcher holds tiles of columns 0 .. MaxGrid
MaxGrid == 1

\* and at most MaxFiles styled tiles
MaxFiles == 3

\* the comparison engine finds at most MaxPairs original tiles
MaxPairs == 3

(* ------------------------- program constants --------------------------- *)

ZOOM_LEVEL == 26

SSIM_THRESHOLD == 35

MAX_RETRY_ATTEMPTS == 3

max_retries == 3

TILE_SIZE == 256

ORIGIN_X == 242000000

ORIGIN_Y == 135000000

\* ground resolution in centimetres per pixel (the source table is in metres)
RESOLUTIONS ==
  [z \in 0..28 |->
     CASE z = 0 -> 400000 [] z = 1 -> 375000 [] z = 2 -> 350000
       [] z = 3 -> 325000 [] z = 4 -> 300000 [] z = 5 -> 275000
       [] z = 6 -> 250000 [] z = 7 -> 225000 [] z = 8 -> 200000
       [] z = 9 -> 175000 [] z = 10 -> 150000 [] z = 11 -> 125000
       [] z = 12 -> 100000 [] z = 13 -> 75000 [] z = 14 -> 65000
       [] z = 15 -> 50000 [] z = 16 -> 25000 [] z = 17 -> 10000
       [] z = 18 -> 5000 [] z = 19 -> 2000 [] z = 20 -> 1000
       [] z = 21 -> 500 [] z = 22 -> 250 [] z = 23 -> 200
       [] z = 24 -> 150 [] z = 25 -> 100 [] z = 26 -> 50
       [] z = 27 -> 25 [] z = 28 -> 10]

\* the value of a local that was never assigned (reading it raises
\* UnboundLocalError)
UNBOUND == -999

(* --------------------------- tile addressing --------------------------- *)

\* Python int(a / b) for b > 0: truncation toward zero
int(a, b) == IF a >= 0 THEN a \div b ELSE -((-a) \div b)

tile_width_m(zoom) == TILE_SIZE * RESOLUTIONS[zoom]

swiss_to_tile(x, y, zoom) ==
  << int(x - ORIGIN_X, tile_width_m(zoom)), int(ORIGIN_Y - y, tile_width_m(zoom)) >>

\* range(lo, hi + 1) has this many elements
RangeLen(lo, hi) == IF hi >= lo THEN hi - lo + 1 ELSE 0

\* the nested loops of get_tiles_in_bbox: columns outer, rows inner
get_tiles_in_bbox(b, zoom) ==
  LET lo == swiss_to_tile(b.min_x, b.min_y, zoom)
      hi == swiss_to_tile(b.max_x, b.max_y, zoom)
      min_tile_col == lo[1]
      max_tile_row == lo[2]
      max_tile_col == hi[1]
      min_tile_row == hi[2]
      nc == RangeLen(min_tile_col, max_tile_col)
      nr == RangeLen(min_tile_row, max_tile_row)
  IN  [k \in 1..(nc * nr) |->
         << min_tile_col + ((k - 1) \div nr), min_tile_row + ((k - 1) % nr) >>]

(* ------------------------------- state --------------------------------- *)

VARIABLES
  pc,                \* position of the program
  bbox,              \* main: bounding box returned by parse_kml_bbox
  tiles,             \* main: list returned by get_tiles_in_bbox
  i,                 \* main: index of the loop over tiles (0-based)
  total_tiles,       \* main: statistics
  successful_tiles,
  failed_tiles,
  retry_needed,
  success,           \* main: result of the last process_tile_with_validation
  final_ssim,
  attempt,           \* process_tile_with_validation: outer loop variable
  ssim_score,        \* process_tile_with_validation: last score, or UNBOUND
  transport_attempt, \* apply_style_transfer: its loop variable "attempt"
  store,             \* files written to OUTPUT_DIR: <<col, row, role>>
  calls,             \* external calls made for the current tile, in order
  error,             \* the uncaught exception that ended the program
  arg,               \* argument of a tile-addressing call
  ret                \* its result

vars == << pc, bbox, tiles, i, total_tiles, successful_tiles, failed_tiles,
           retry_needed, success, final_ssim, attempt, ssim_score,
           transport_attempt, store, calls, error, arg, ret >>

(* ------------------------- external collaborators ---------------------- *)

\* scores calculate_ssim_score can return: below, at and above the threshold
Scores == {20, 35, 50}

\* one external call: download, save, generate or sleep
Ev(op, att, prompt, res, n) ==
  [op |-> op, att |-> att, prompt |-> prompt, res |-> res, n |-> n]

Download(res) == Ev("download", 0, "-", res, 0)

Save(role) == Ev("save", 0, "-", role, 0)

Sleep(n) == Ev("sleep", 0, "-", "-", n)

\* generate_content in outer attempt att with prompt p; res is "raise",
\* "empty" or "image", n the score the returned image will get
Generate(att, p, res, n) == Ev("generate", att, p, res, n)

(* --------------------- process_tile_with_validation -------------------- *)

\* (variant: the second attempt still uses the main prompt)
prompt_type_main_twice(a) == IF a <= 1 THEN "main" ELSE "retry"

\* which prompt an outer attempt uses
prompt_type(a) == IF a = 0 THEN "main" ELSE "retry"

\* (variant: a score equal to the threshold is accepted)
TransformationOk_le(score, threshold) == score <= threshold

\* the test that accepts a scored attempt
TransformationOk(score, threshold) == score < threshold

\* (variant: the outer loop stops one attempt early)
OuterHasNext_short(a, max_attempts) == a + 1 < max_attempts - 1

\* the outer loop "for attempt in range(max_attempts)" has a next iteration
OuterHasNext(a, max_attempts) == a + 1 < max_attempts

\* "if attempt < max_attempts - 1" guarding the retry delay
RetryDelayDue(a, max_attempts) == a < max_attempts - 1

\* (variant: one transport retry too many)
TransportRetryDue_extra(a, retries) == a < retries

\* "if attempt < max_retries - 1" in the except clause of apply_style_transfer
TransportRetryDue(a, retries) == a < retries - 1

\* backoff before a transport retry
wait_time(a) == (a + 1) * 10

\* the tile of the current loop iteration
tile_col == tiles[i + 1][1]

tile_row == tiles[i + 1][2]

\* the program dies with an uncaught exception
Raise(exc, log) ==
  /\ pc' = "aborted"
  /\ error' = exc
  /\ calls' = log
  /\ UNCHANGED << i, successful_tiles, failed_tiles, retry_needed, success,
                  final_ssim, attempt, ssim_score, transport_attempt >>

\* the loop header of main: next tile, or the summary after the last one
NextTile ==
  /\ i' = i + 1
  /\ pc' = IF i + 1 < total_tiles THEN "download" ELSE "summary"

\* process_tile_with_validation returned (s, f): the rest of the loop body of
\* main, including the inter-tile delay
ReturnToMain(s, f, log) ==
  /\ success' = s
  /\ final_ssim' = f
  /\ successful_tiles' = IF s THEN successful_tiles + 1 ELSE successful_tiles
  /\ failed_tiles' = IF s THEN failed_tiles ELSE failed_tiles + 1
  /\ retry_needed' = IF ~s /\ f >= SSIM_THRESHOLD
                       THEN retry_needed + 1 ELSE retry_needed
  /\ calls' = log \o << Sleep(2) >>
  /\ NextTile
  /\ attempt' = 0
  /\ ssim_score' = UNBOUND
  /\ transport_attempt' = 0
  /\ error' = error

\* the outer loop is left without acceptance: "return False, ssim_score"
Exhausted(score, log) ==
  IF score = UNBOUND
    THEN Raise("UnboundLocalError", log)
    ELSE ReturnToMain(FALSE, score, log)

\* the outer loop moves on from attempt "attempt" (continue, or end of body)
NextAttempt(score, log) ==
  IF OuterHasNext(attempt, MAX_RETRY_ATTEMPTS)
    THEN /\ attempt' = attempt + 1
         /\ transport_attempt' = 0
         /\ ssim_score' = score
         /\ calls' = log
         /\ UNCHANGED << pc, i, successful_tiles, failed_tiles, retry_needed,
                         success, final_ssim, error >>
    ELSE Exhausted(score, log)

\* main, lines 285-307: download the tile, save it, enter the outer loop
FetchTile ==
  /\ pc = "download"
  /\ \E ok \in BOOLEAN :
       IF ~ok
         THEN /\ failed_tiles' = failed_tiles + 1
              /\ calls' = << Download("fail") >>
              /\ NextTile
              /\ UNCHANGED << successful_tiles, retry_needed, success,
                              final_ssim, attempt, ssim_score,
                              transport_attempt, store, error >>
         ELSE /\ calls' = << Download("ok"), Save("original") >>
              /\ store' = store \cup { << tile_col, tile_row, "original" >> }
              /\ pc' = "generate"
              /\ attempt' = 0
              /\ transport_attempt' = 0
              /\ ssim_score' = UNBOUND
              /\ UNCHANGED << i, successful_tiles, failed_tiles, retry_needed,
                              success, final_ssim, error >>
  /\ UNCHANGED << bbox, tiles, total_tiles, arg, ret >>

\* generate_content raises: backoff and retry, or give up with None
GenerateRaises ==
  /\ pc = "generate"
  /\ LET log == calls \o << Generate(attempt, prompt_type(attempt), "raise", 0) >>
     IN  IF TransportRetryDue(transport_attempt, max_retries)
           THEN /\ calls' = log \o << Sleep(wait_time(transport_attempt)) >>
                /\ transport_attempt' = transport_attempt + 1
                /\ UNCHANGED << pc, i, successful_tiles, failed_tiles,
                                retry_needed, success, final_ssim, attempt,
                                ssim_score, error >>
           ELSE NextAttempt(ssim_score, log)
  /\ UNCHANGED << bbox, tiles, total_tiles, store, arg, ret >>

\* generate_content answers without an image part: None, no transport retry
GenerateEmpty ==
  /\ pc = "generate"
  /\ NextAttempt(ssim_score,
                 calls \o << Generate(attempt, prompt_type(attempt), "empty", 0) >>)
  /\ UNCHANGED << bbox, tiles, total_tiles, store, arg, ret >>

\* generate_content returns an image: save it, score it, accept or retry
GenerateImage ==
  /\ pc = "generate"
  /\ \E score \in Scores :
       LET log == calls \o << Generate(attempt, prompt_type(attempt), "image", score),
                              Save("styled") >>
       IN  IF TransformationOk(score, SSIM_THRESHOLD)
             THEN ReturnToMain(TRUE, score, log)
             ELSE IF RetryDelayDue(attempt, MAX_RETRY_ATTEMPTS)
                    THEN NextAttempt(score, log \o << Sleep(2) >>)
                    ELSE NextAttempt(score, log)
  /\ store' = store \cup { << tile_col, tile_row, "styled" >> }
  /\ UNCHANGED << bbox, tiles, total_tiles, arg, ret >>

\* main, lines 319-328: the summary divides by total_tiles
Summary ==
  /\ pc = "summary"
  /\ IF total_tiles = 0
       THEN pc' = "aborted" /\ error' = "ZeroDivisionError"
       ELSE pc' = "done" /\ error' = error
  /\ UNCHANGED << bbox, tiles, i, total_tiles, successful_tiles, failed_tiles,
                  retry_needed, success, final_ssim, attempt, ssim_score,
                  transport_attempt, store, calls, arg, ret >>

(* ------------------------------- main ---------------------------------- *)

\* parse_kml_bbox returns min/max over the transformed coordinates, so
\* min <= max on both axes
BoxOffsets == { k * tile_width_m(ZOOM_LEVEL) + (tile_width_m(ZOOM_LEVEL) \div 2) :
                  k \in 0..MaxBoxIdx }

BBoxes ==
  { [min_x |-> ORIGIN_X + a, max_x |-> ORIGIN_X + b,
     min_y |-> ORIGIN_Y - c, max_y |-> ORIGIN_Y - c] :
      a \in BoxOffsets, b \in BoxOffsets, c \in BoxOffsets }

NoCall == [kind |-> "none"]

Init ==
  /\ bbox \in { b \in BBoxes : b.min_x <= b.max_x /\ b.min_y <= b.max_y }
  /\ tiles = get_tiles_in_bbox(bbox, ZOOM_LEVEL)
  /\ total_tiles = Len(tiles)
  /\ successful_tiles = 0
  /\ failed_tiles = 0
  /\ retry_needed = 0
  /\ i = 0
  /\ pc = IF 0 < total_tiles THEN "download" ELSE "summary"
  /\ success = FALSE
  /\ final_ssim = UNBOUND
  /\ attempt = 0
  /\ ssim_score = UNBOUND
  /\ transport_attempt = 0
  /\ store = {}
  /\ calls = << >>
  /\ error = "none"
  /\ arg = NoCall
  /\ ret = NoCall

Next ==
  \/ FetchTile
  \/ GenerateRaises
  \/ GenerateEmpty
  \/ GenerateImage
  \/ Summary

Spec == Init /\ [][Next]_vars

\* a sequential program: the interpreter keeps executing while a step is left
FairSpec == Spec /\ WF_vars(Next)

(* ---------------- tile addressing as functions of their input ---------- *)

Zooms == {0, 22, 26, 28}

\* offsets from the origin: on, just after, in the middle of and just before
\* the boundaries of the tiles -MaxTileIdx .. MaxTileIdx
PointOffsets(span) ==
  { k * span + e : k \in (-MaxTileIdx)..MaxTileIdx,
                   e \in {0, 1, span \div 2, span - 1} }

EdgeOffsets(span) ==
  { k * span + e : k \in (-MaxTileIdx)..MaxTileIdx, e \in {0, span \div 2} }

PointArgs ==
  UNION { { [kind |-> "point", x |-> ORIGIN_X + dx, y |-> ORIGIN_Y - dy, zoom |-> z] :
              dx \in PointOffsets(tile_width_m(z)),
              dy \in PointOffsets(tile_width_m(z)) } : z \in Zooms }

BBoxArgs ==
  { [kind |-> "bbox", zoom |-> ZOOM_LEVEL,
     bbox |-> [min_x |-> ORIGIN_X + a, max_x |-> ORIGIN_X + b,
               min_y |-> ORIGIN_Y - c, max_y |-> ORIGIN_Y - d]] :
      a \in EdgeOffsets(tile_width_m(ZOOM_LEVEL)),
      b \in EdgeOffsets(tile_width_m(ZOOM_LEVEL)),
      c \in EdgeOffsets(tile_width_m(ZOOM_LEVEL)),
      d \in EdgeOffsets(tile_width_m(ZOOM_LEVEL)) }

TileInit ==
  /\ pc = "call"
  /\ arg \in PointArgs \cup BBoxArgs
  /\ ret = NoCall
  /\ bbox = NoCall
  /\ tiles = << >>
  /\ total_tiles = 0
  /\ successful_tiles = 0
  /\ failed_tiles = 0
  /\ retry_needed = 0
  /\ i = 0
  /\ success = FALSE
  /\ final_ssim = UNBOUND
  /\ attempt = 0
  /\ ssim_score = UNBOUND
  /\ transport_attempt = 0
  /\ store = {}
  /\ calls = << >>
  /\ error = "none"

CallSwissToTile ==
  /\ pc = "call"
  /\ arg.kind = "point"
  /\ ret' = [kind |-> "tile", tile |-> swiss_to_tile(arg.x, arg.y, arg.zoom)]
  /\ pc' = "returned"
  /\ UNCHANGED << bbox, tiles, i, total_tiles, successful_tiles, failed_tiles,
                  retry_needed, success, final_ssim, attempt, ssim_score,
                  transport_attempt, store, calls, error, arg >>

\* get_tiles_in_bbox has no raise statement: it always returns a list
CallGetTilesInBBox ==
  /\ pc = "call"
  /\ arg.kind = "bbox"
  /\ ret' = [kind |-> "tiles", raised |-> "none",
             tiles |-> get_tiles_in_bbox(arg.bbox, arg.zoom)]
  /\ pc' = "returned"
  /\ UNCHANGED << bbox, tiles, i, total_tiles, successful_tiles, failed_tiles,
                  retry_needed, success, final_ssim, attempt, ssim_score,
                  transport_attempt, store, calls, error, arg >>

TileNext ==
  \/ CallSwissToTile
  \/ CallGetTilesInBBox

TileSpec == TileInit /\ [][TileNext]_vars

(* ------------------------- reading the call log ------------------------ *)

\* positions of the generator calls in a log
GenIdx(log) == { k \in 1..Len(log) : log[k].op = "generate" }

\* positions of the generator calls of outer attempt a
GenOf(log, a) == { k \in GenIdx(log) : log[k].att = a }

\* the generator calls of a log, in order
IsGenerate(e) == e.op = "generate"

GenSeq(log) == SelectSeq(log, IsGenerate)

\* the current tile was downloaded
Fetched(log) == Len(log) > 0 /\ log[1] = Download("ok")

\* the log is that of a downloaded tile whose processing is over
TileOver == pc # "generate" /\ Fetched(calls)

\* log position k ends its outer attempt without an accepted image
NoImageAt(log, k) ==
  \/ log[k].res = "empty"
  \/ log[k].res = "raise"
       /\ Cardinality({ j \in GenOf(log, log[k].att) : j <= k }) = max_retries

TooSimilarAt(log, k) == log[k].res = "image" /\ log[k].n >= SSIM_THRESHOLD

\* the tile failed locally: its fetch failed, or its last outer attempt ended
\* without acceptance
TileFailedLocally ==
  \/ calls = << Download("fail") >>
  \/ \E k \in GenOf(calls, MAX_RETRY_ATTEMPTS - 1) :
       NoImageAt(calls, k) \/ TooSimilarAt(calls, k)

(* ------------------------------- claims -------------------------------- *)

\* C1: a failure local to one tile never aborts the batch: once a tile has
\* failed (fetch failure, no image on the last outer attempt, or a last
\* attempt that is too similar) the program has gone on to the next tile or
\* to the summary; it has not died.
C1_TileFailureNeverAborts ==
  TileFailedLocally => pc \in {"download", "summary", "done"}

\* C2: when every generator call of a tile returned an image scoring at or
\* above the threshold, the tile ends after exactly MAX_RETRY_ATTEMPTS
\* generator calls, with success false and the score of the last call.
C2_AlwaysSimilarExhausts ==
  (TileOver /\ \A k \in GenIdx(calls) : TooSimilarAt(calls, k))
    => /\ Len(GenSeq(calls)) = MAX_RETRY_ATTEMPTS
       /\ \A a \in 0..(MAX_RETRY_ATTEMPTS - 1) : Cardinality(GenOf(calls, a)) = 1
       /\ pc # "aborted"
       /\ success = FALSE
       /\ final_ssim = GenSeq(calls)[MAX_RETRY_ATTEMPTS].n

C2_Witness ==
  /\ TileOver
  /\ \A k \in GenIdx(calls) : TooSimilarAt(calls, k)
  /\ Len(GenSeq(calls)) = MAX_RETRY_ATTEMPTS
  /\ GenSeq(calls)[1].n = 50
  /\ final_ssim = 35
  /\ ~success

\* C3: when the first generator call of a tile returns a too-similar image
\* and the second a dissimilar one, the tile is accepted by the second outer
\* attempt, which used the retry prompt, and there is no third generator call.
C3_Pre ==
  /\ Len(GenSeq(calls)) >= 2
  /\ GenSeq(calls)[1].res = "image" /\ GenSeq(calls)[1].n >= SSIM_THRESHOLD
  /\ GenSeq(calls)[2].res = "image" /\ GenSeq(calls)[2].n < SSIM_THRESHOLD

C4_AcceptIffBelowThreshold ==
  \A k \in GenIdx(calls) :
    calls[k].res = "image" =>
      /\ calls[k].n < SSIM_THRESHOLD
           => /\ TileOver /\ pc # "aborted"
              /\ \A j \in GenIdx(calls) : j <= k
              /\ calls[k + 1] = Save("styled")
              /\ << tiles[i][1], tiles[i][2], "styled" >> \in store
              /\ success = TRUE
              /\ final_ssim = calls[k].n
      /\ calls[k].n >= SSIM_THRESHOLD
           => /\ calls[k + 1] = Save("styled")
              /\ calls[k].att < MAX_RETRY_ATTEMPTS - 1
                   => \/ pc = "generate" /\ attempt = calls[k].att + 1
                      \/ GenOf(calls, calls[k].att + 1) # {}
              /\ (TileOver /\ \A j \in GenIdx(calls) : j <= k)
                   => success = FALSE /\ calls[k].att = MAX_RETRY_ATTEMPTS - 1

C4_Witness ==
  /\ TileOver
  /\ Len(GenSeq(calls)) = 2
  /\ GenSeq(calls)[1].res = "image" /\ GenSeq(calls)[1].n = SSIM_THRESHOLD
  /\ GenSeq(calls)[2].res = "image" /\ GenSeq(calls)[2].n < SSIM_THRESHOLD
  /\ success

\* C5: an empty payload is handled exactly as a too-similar image: no
\* transport retry, and when outer attempts remain the fixed retry delay of 2
\* precedes the next attempt, which uses the retry prompt.
C5_EmptyPayloadLikeTooSimilar ==
  \A k \in GenIdx(calls) :
    (calls[k].res = "empty" /\ calls[k].att < MAX_RETRY_ATTEMPTS - 1)
      => /\ \A j \in GenOf(calls, calls[k].att) : j <= k
         /\ k < Len(calls) => calls[k + 1] = Sleep(2)
         /\ k + 2 <= Len(calls) =>
              /\ calls[k + 2].op = "generate"
              /\ calls[k + 2].att = calls[k].att + 1
              /\ calls[k + 2].prompt = "retry"

\* C6: the inter-tile delay follows every tile: when the download of a later
\* tile is about to begin, the last external call was the delay of 2.
C6_DelayAfterEveryTile ==
  (pc = "download" /\ i > 0) => calls[Len(calls)] = Sleep(2)

\* C7: one outer attempt calls the generator at most max_retries times and
\* only again after a call that raised; the j-th raise of an attempt is
\* followed by a backoff of j * 10; a tile makes at most
\* MAX_RETRY_ATTEMPTS * max_retries generator calls; and the processing of a
\* tile always comes to an end.
C7_CallsBounded ==
  /\ Cardinality(GenIdx(calls)) <= MAX_RETRY_ATTEMPTS * max_retries
  /\ \A k \in GenIdx(calls) : calls[k].att \in 0..(MAX_RETRY_ATTEMPTS - 1)
  /\ \A a \in 0..(MAX_RETRY_ATTEMPTS - 1) :
       Cardinality(GenOf(calls, a)) <= max_retries
  /\ \A k \in GenIdx(calls) :
       LET a == calls[k].att
           j == Cardinality({ m \in GenOf(calls, a) : m <= k })
       IN  IF calls[k].res = "raise" /\ j < max_retries
             THEN /\ calls[k + 1] = Sleep(j * 10)
                  /\ k + 2 <= Len(calls) =>
                       calls[k + 2].op = "generate" /\ calls[k + 2].att = a
             ELSE \A m \in GenOf(calls, a) : m <= k
  /\ \A k \in 1..Len(calls) :
       (calls[k].op = "sleep" /\ calls[k].n # 2)
         => (k > 1 /\ calls[k - 1].op = "generate" /\ calls[k - 1].res = "raise")

C7_BoundedRetriesAndTermination ==
  /\ []C7_CallsBounded
  /\ [](pc = "generate" => <>(pc # "generate"))

C7_Witness ==
  /\ TileOver
  /\ Cardinality(GenIdx(calls)) = MAX_RETRY_ATTEMPTS * max_retries
  /\ \E k \in 1..Len(calls) : calls[k] = Sleep(20)

\* C8: the tile returned for a point is the floor-division tile: its
\* half-open planar rectangle contains the point, west of origin_x and north
\* of origin_y included.
C8_TileContainsPoint ==
  (pc = "returned" /\ arg.kind = "point")
    => LET span == tile_width_m(arg.zoom)
           c == ret.tile[1]
           r == ret.tile[2]
       IN  /\ ORIGIN_X + c * span <= arg.x
           /\ arg.x < ORIGIN_X + (c + 1) * span
           /\ ORIGIN_Y - (r + 1) * span < arg.y
           /\ arg.y <= ORIGIN_Y - r * span

\* C9: a bounding box equal to the exact extent of one tile (c, r) yields
\* exactly that one tile.
ExtentOf(c, r, zoom) ==
  [min_x |-> ORIGIN_X + c * tile_width_m(zoom),
   max_x |-> ORIGIN_X + (c + 1) * tile_width_m(zoom),
   min_y |-> ORIGIN_Y - (r + 1) * tile_width_m(zoom),
   max_y |-> ORIGIN_Y - r * tile_width_m(zoom)]

C9_ExactExtentGivesOneTile ==
  (pc = "returned" /\ arg.kind = "bbox")
    => \A c \in (-MaxTileIdx)..MaxTileIdx, r \in (-MaxTileIdx)..MaxTileIdx :
         arg.bbox = ExtentOf(c, r, arg.zoom) => ret.tiles = << << c, r >> >>

\* C10: an inverted bounding box makes get_tiles_in_bbox signal a
\* ConfigurationError instead of returning a list.
C10_InvertedBBoxIsAnError ==
  (pc = "returned" /\ arg.kind = "bbox"
     /\ (arg.bbox.min_x > arg.bbox.max_x \/ arg.bbox.min_y > arg.bbox.max_y))
    => ret.raised = "ConfigurationError"

(* ------------------- artifact names (the on-disk protocol) ------------- *)

\* file names are sequences of one-character strings
DigitChars == << "0", "1", "2", "3", "4", "5", "6", "7", "8", "9" >>

MapSuffix == << "_", "m", "a", "p", ".", "j", "p", "e", "g" >>

JpegSuffix == << ".", "j", "p", "e", "g" >>

\* the decimal digits of n >= 0
RECURSIVE Digits(_)

Digits(n) ==
  IF n < 10 THEN << DigitChars[n + 1] >>
            ELSE Digits(n \div 10) \o << DigitChars[(n % 10) + 1] >>

\* the formatting of an integer in an f-string
str(n) == IF n < 0 THEN << "-" >> \o Digits(-n) ELSE Digits(n)

\* main: f"{tile_col}_{tile_row}.jpeg" and f"{tile_col}_{tile_row}_map.jpeg"
original_name(col, row) == str(col) \o << "_" >> \o str(row) \o JpegSuffix

styled_name(col, row) == str(col) \o << "_" >> \o str(row) \o MapSuffix

IsDigit(ch) == \E d \in 1..10 : DigitChars[d] = ch

DigitValue(ch) == (CHOOSE d \in 1..10 : DigitChars[d] = ch) - 1

\* length of the longest run of digits of name that starts at position k
\* (the greedy \d+ of the pattern)
RECURSIVE DigitRun(_, _)

DigitRun(name, k) ==
  IF k <= Len(name) /\ IsDigit(name[k]) THEN 1 + DigitRun(name, k + 1) ELSE 0

\* (variant: the last digit of a group is dropped)
RECURSIVE ToInt_drops_last(_)

ToInt_drops_last(digits) ==
  IF Len(digits) <= 1 THEN 0
  ELSE 10 * ToInt_drops_last(SubSeq(digits, 1, Len(digits) - 1))
         + DigitValue(digits[Len(digits) - 1])

\* int(match.group(k)) of a string of digits
RECURSIVE ToInt(_)

ToInt(digits) ==
  IF Len(digits) = 0 THEN 0
  ELSE 10 * ToInt(SubSeq(digits, 1, Len(digits) - 1))
         + DigitValue(digits[Len(digits)])

\* parse_tile_filename returns None
None == << >>

\* re.match(r'(\d+)_(\d+)_map\.jpeg$', filename): digits and "_" are
\* disjoint, so the greedy groups never backtrack
parse_tile_filename(filename) ==
  LET d1 == DigitRun(filename, 1)
      d2 == DigitRun(filename, d1 + 2)
  IN  IF /\ d1 >= 1
         /\ d1 + 1 <= Len(filename)
         /\ filename[d1 + 1] = "_"
         /\ d2 >= 1
         /\ SubSeq(filename, d1 + d2 + 2, Len(filename)) = MapSuffix
        THEN << ToInt(SubSeq(filename, 1, d1)),
                ToInt(SubSeq(filename, d1 + 2, d1 + d2 + 1)) >>
        ELSE None

\* the variables of the pipeline, idle in the specifications of the other tools
pipelineVars == << bbox, tiles, i, total_tiles, successful_tiles, failed_tiles,
                   retry_needed, success, final_ssim, attempt, ssim_score,
                   transport_attempt, store, calls, error >>

PipelineIdle ==
  /\ bbox = NoCall
  /\ tiles = << >>
  /\ total_tiles = 0
  /\ successful_tiles = 0
  /\ failed_tiles = 0
  /\ retry_needed = 0
  /\ i = 0
  /\ success = FALSE
  /\ final_ssim = UNBOUND
  /\ attempt = 0
  /\ ssim_score = UNBOUND
  /\ transport_attempt = 0
  /\ store = {}
  /\ calls = << >>
  /\ error = "none"

\* names that do not follow the styled pattern
OtherNames ==
  { << "m", "a", "p", "_", "1", "2", "_", "7" >> \o JpegSuffix,
    << "1", "2", "_", "7", "_", "m", "a", "p", ".", "j", "p", "g" >>,
    << "1", "2", "_", "7" >> \o MapSuffix \o << "x" >>,
    << "x", "1", "2", "_", "7" >> \o MapSuffix,
    << "1", "2", "_" >> \o MapSuffix,
    << "_", "7" >> \o MapSuffix,
    << "1", "2" >> \o MapSuffix,
    << "1", "2", "-", "7" >> \o MapSuffix,
    MapSuffix,
    << >> }

NameArgs ==
  { [kind |-> k, col |-> c, row |-> r, name |-> << >>] :
      k \in {"styled", "original"}, c \in 0..MaxIndex, r \in 0..MaxIndex }
  \cup { [kind |-> "other", col |-> 0, row |-> 0, name |-> n] : n \in OtherNames }

NameInit ==
  /\ pc = "call"
  /\ arg \in NameArgs
  /\ ret = NoCall
  /\ PipelineIdle

\* the pipeline writes the styled tile of (col, row); the stitcher parses the
\* name
ParseStyledName ==
  /\ pc = "call"
  /\ arg.kind = "styled"
  /\ ret' = [kind |-> "parsed", name |-> styled_name(arg.col, arg.row),
             coords |-> parse_tile_filename(styled_name(arg.col, arg.row))]
  /\ pc' = "returned"
  /\ UNCHANGED << pipelineVars, arg >>

\* the name of the original tile of (col, row) is given to the parser
ParseOriginalName ==
  /\ pc = "call"
  /\ arg.kind = "original"
  /\ ret' = [kind |-> "parsed", name |-> original_name(arg.col, arg.row),
             coords |-> parse_tile_filename(original_name(arg.col, arg.row))]
  /\ pc' = "returned"
  /\ UNCHANGED << pipelineVars, arg >>

ParseOtherName ==
  /\ pc = "call"
  /\ arg.kind = "other"
  /\ ret' = [kind |-> "parsed", name |-> arg.name,
             coords |-> parse_tile_filename(arg.name)]
  /\ pc' = "returned"
  /\ UNCHANGED << pipelineVars, arg >>

NameNext ==
  \/ ParseStyledName
  \/ ParseOriginalName
  \/ ParseOtherName

NameSpec == NameInit /\ [][NameNext]_vars

File(state, w, h) == [state |-> state, w |-> w, h |-> h]

FileKinds ==
  { File("ok", TILE_SIZE, TILE_SIZE), File("ok", 2 * TILE_SIZE, TILE_SIZE),
    File("truncated", TILE_SIZE, TILE_SIZE), File("corrupt", 0, 0) }

\* rows of the tile store
GridRows == 0..1

Cells == (0..MaxGrid) \X GridRows

\* the tile stores: which styled tiles exist, and what their files hold
Stores ==
  UNION { [S -> FileKinds] : S \in { T \in SUBSET Cells : Cardinality(T) <= MaxFiles } }

\* the orders in which os.listdir can enumerate the styled tiles of a store
Orders(S) ==
  { p \in [1..Cardinality(S) -> S] : \A a, b \in 1..Cardinality(S) : p[a] = p[b] => a = b }

DirArgs ==
  UNION { { [kind |-> "dir", files |-> f, order |-> p] : p \in Orders(DOMAIN f) } :
            f \in Stores }

Reverse(seq) == [k \in 1..Len(seq) |-> seq[Len(seq) + 1 - k]]

\* os.listdir(input_dir) in run 1 and in run 2: the original of tile (0, 0),
\* then the styled tiles in the order of the run
ListDir(run) ==
  LET order == IF run = 1 THEN arg.order ELSE Reverse(arg.order)
  IN  << [name |-> original_name(0, 0), file |-> File("ok", TILE_SIZE, TILE_SIZE)] >>
        \o [k \in 1..Len(order) |->
              [name |-> styled_name(order[k][1], order[k][2]),
               file |-> arg.files[order[k]]]]

\* filename.endswith('_map.jpeg')
EndsWithMap(name) ==
  /\ Len(name) >= Len(MapSuffix)
  /\ SubSeq(name, Len(name) - Len(MapSuffix) + 1, Len(name)) = MapSuffix

\* a dict keeps its keys in insertion order; assigning to a key that exists
\* replaces the value in place
DictKeys(dict) == { dict[k].key : k \in 1..Len(dict) }

DictGet(dict, key) == dict[CHOOSE k \in 1..Len(dict) : dict[k].key = key].file

DictSet(dict, key, file) ==
  IF key \in DictKeys(dict)
    THEN [k \in 1..Len(dict) |->
            IF dict[k].key = key THEN [key |-> key, file |-> file] ELSE dict[k]]
    ELSE Append(dict, [key |-> key, file |-> file])

Min2(a, b) == IF a <= b THEN a ELSE b

Max2(a, b) == IF a >= b THEN a ELSE b

\* the loop of find_all_tiles over the first n names of the listing; the
\* extents start at +-inf, that is, the first tile sets them
RECURSIVE ScanDir(_, _)

ScanDir(listing, n) ==
  IF n = 0
    THEN [tiles |-> << >>, min_col |-> 0, max_col |-> 0, min_row |-> 0, max_row |-> 0]
    ELSE LET acc == ScanDir(listing, n - 1)
             coords == parse_tile_filename(listing[n].name)
         IN  IF EndsWithMap(listing[n].name) /\ coords # None
               THEN LET first == acc.tiles = << >>
                    IN  [tiles |-> DictSet(acc.tiles, coords, listing[n].file),
                         min_col |-> IF first THEN coords[1] ELSE Min2(acc.min_col, coords[1]),
                         max_col |-> IF first THEN coords[1] ELSE Max2(acc.max_col, coords[1]),
                         min_row |-> IF first THEN coords[2] ELSE Min2(acc.min_row, coords[2]),
                         max_row |-> IF first THEN coords[2] ELSE Max2(acc.max_row, coords[2])]
               ELSE acc

find_all_tiles(listing) == ScanDir(listing, Len(listing))

\* detect_tile_size: the size of the first tile, in dict order, that opens;
\* << >> when none does (ValueError)
RECURSIVE FirstOpenable(_, _)

FirstOpenable(dict, k) ==
  IF k > Len(dict) THEN << >>
  ELSE IF dict[k].file.state # "corrupt"
         THEN << dict[k].file.w, dict[k].file.h >>
         ELSE FirstOpenable(dict, k + 1)

detect_tile_size(dict) == FirstOpenable(dict, 1)

\* (variant: the offset is taken from the grid origin, not from the extent)
offset_absolute(idx, min_idx, size) == idx * size

\* x = (col - min_col) * tile_width, y = (row - min_row) * tile_height
offset(idx, min_idx, size) == (idx - min_idx) * size

\* the canvas in blocks of TILE_SIZE x TILE_SIZE pixels; a block shows the
\* background, or block (dx, dy) of the image of a tile
Background == [tile |-> << >>, dx |-> 0, dy |-> 0]

\* Image.new('RGB', (width, height), (255, 255, 255))
NewImage(width, height) ==
  [b \in (0..((width \div TILE_SIZE) - 1)) \X (0..((height \div TILE_SIZE) - 1))
     |-> Background]

\* output_img.paste(tile_img, (x, y)): the part outside the canvas is clipped
Paste(img, key, file, x, y) ==
  [b \in DOMAIN img |->
     IF /\ x <= b[1] * TILE_SIZE /\ b[1] * TILE_SIZE < x + file.w
        /\ y <= b[2] * TILE_SIZE /\ b[2] * TILE_SIZE < y + file.h
       THEN [tile |-> key, dx |-> b[1] - (x \div TILE_SIZE), dy |-> b[2] - (y \div TILE_SIZE)]
       ELSE img[b]]

\* the locals of stitch_tiles.main and stitch_tiles at the start of a run;
\* outs holds the outcomes of the runs that are over
StitchStart(run, outs) ==
  [kind |-> "stitch", run |-> run, outs |-> outs,
   tiles |-> << >>, min_col |-> 0, max_col |-> 0, min_row |-> 0, max_row |-> 0,
   tile_width |-> 0, tile_height |-> 0, width |-> 0, height |-> 0,
   output_img |-> << >>, pasted_tiles |-> 0, missing_tiles |-> << >>,
   pastes |-> << >>, col |-> 0, row |-> 0]

\* what a run leaves behind: the exception, or the stitched image and the
\* statistics
Outcome(raised, r) ==
  [raised |-> raised, tile_width |-> r.tile_width, tile_height |-> r.tile_height,
   min_col |-> r.min_col, min_row |-> r.min_row,
   width |-> r.width, height |-> r.height, pixels |-> r.output_img,
   pasted_tiles |-> r.pasted_tiles, missing_tiles |-> r.missing_tiles,
   pastes |-> r.pastes]

\* the run is over; the second run follows the first
EndRun(raised, r) ==
  IF r.run = 1
    THEN /\ ret' = StitchStart(2, << Outcome(raised, r) >>)
         /\ pc' = "st_find"
    ELSE /\ ret' = [r EXCEPT !.outs = Append(r.outs, Outcome(raised, r))]
         /\ pc' = "st_done"

StitchInit ==
  /\ pc = "st_find"
  /\ arg \in DirArgs
  /\ ret = StitchStart(1, << >>)
  /\ PipelineIdle

\* main, line 135: find_all_tiles; ValueError when no tile is found
FindAllTiles ==
  /\ pc = "st_find"
  /\ LET found == find_all_tiles(ListDir(ret.run))
     IN  IF found.tiles = << >>
           THEN EndRun("ValueError", ret)
           ELSE /\ ret' = [ret EXCEPT !.tiles = found.tiles,
                                      !.min_col = found.min_col,
                                      !.max_col = found.max_col,
                                      !.min_row = found.min_row,
                                      !.max_row = found.max_row]
                /\ pc' = "st_detect"
  /\ UNCHANGED << pipelineVars, arg >>

\* stitch_tiles, lines 70-84: detect the tile size, allocate the canvas
DetectAndAllocate ==
  /\ pc = "st_detect"
  /\ LET size == detect_tile_size(ret.tiles)
     IN  IF size = << >>
           THEN EndRun("ValueError", ret)
           ELSE LET width == (ret.max_col - ret.min_col + 1) * size[1]
                    height == (ret.max_row - ret.min_row + 1) * size[2]
                IN  /\ ret' = [ret EXCEPT !.tile_width = size[1],
                                          !.tile_height = size[2],
                                          !.width = width,
                                          !.height = height,
                                          !.output_img = NewImage(width, height),
                                          !.col = ret.min_col,
                                          !.row = ret.min_row]
                    /\ pc' = "st_paste"
  /\ UNCHANGED << pipelineVars, arg >>

\* the nested loops move on from (col, row): rows inner, columns outer
AfterCell(r) ==
  IF r.row < r.max_row THEN [r EXCEPT !.row = r.row + 1]
                       ELSE [r EXCEPT !.col = r.col + 1, !.row = r.min_row]

\* stitch_tiles, lines 87-106: one iteration of the inner loop
PasteCell ==
  /\ pc = "st_paste"
  /\ LET key == << ret.col, ret.row >>
         x == offset(ret.col, ret.min_col, ret.tile_width)
         y == offset(ret.row, ret.min_row, ret.tile_height)
         done ==
           IF key \in DictKeys(ret.tiles) /\ DictGet(ret.tiles, key).state = "ok"
             THEN [ret EXCEPT
                     !.output_img = Paste(ret.output_img, key,
                                          DictGet(ret.tiles, key), x, y),
                     !.pastes = Append(ret.pastes, [tile |-> key, x |-> x, y |-> y]),
                     !.pasted_tiles = ret.pasted_tiles + 1]
             ELSE [ret EXCEPT !.missing_tiles = Append(ret.missing_tiles, key)]
     IN  /\ ret' = AfterCell(done)
         /\ pc' = IF ret'.col > ret.max_col THEN "st_save" ELSE "st_paste"
  /\ UNCHANGED << pipelineVars, arg >>

\* stitch_tiles, lines 108-122: report the gaps, save the image
SaveOutput ==
  /\ pc = "st_save"
  /\ EndRun("none", ret)
  /\ UNCHANGED << pipelineVars, arg >>

StitchNext ==
  \/ FindAllTiles
  \/ DetectAndAllocate
  \/ PasteCell
  \/ SaveOutput

StitchSpec == StitchInit /\ [][StitchNext]_vars

(* --------------------- what the tile store determines ------------------ *)

StoreKeys == DOMAIN arg.files

StoreMinCol == CHOOSE c \in { k[1] : k \in StoreKeys } : \A k \in StoreKeys : c <= k[1]

StoreMaxCol == CHOOSE c \in { k[1] : k \in StoreKeys } : \A k \in StoreKeys : c >= k[1]

StoreMinRow == CHOOSE r \in { k[2] : k \in StoreKeys } : \A k \in StoreKeys : r <= k[2]

StoreMaxRow == CHOOSE r \in { k[2] : k \in StoreKeys } : \A k \in StoreKeys : r >= k[2]

\* the full inclusive rectangle between the extents
StoreRect == (StoreMinCol..StoreMaxCol) \X (StoreMinRow..StoreMaxRow)

\* the cells of the rectangle without a usable tile
StoreGaps ==
  { c \in StoreRect : c \notin StoreKeys \/ arg.files[c].state # "ok" }

\* the outcome o of a run is a complete assembly of the store
Assembled(o) ==
  /\ o.raised = "none"
  /\ \E c \in StoreKeys :
       /\ arg.files[c].state # "corrupt"
       /\ o.tile_width = arg.files[c].w
       /\ o.tile_height = arg.files[c].h
  /\ o.width = (StoreMaxCol - StoreMinCol + 1) * o.tile_width
  /\ o.height = (StoreMaxRow - StoreMinRow + 1) * o.tile_height
  /\ DOMAIN o.pixels =
       (0..((o.width \div TILE_SIZE) - 1)) \X (0..((o.height \div TILE_SIZE) - 1))
  /\ { o.missing_tiles[k] : k \in 1..Len(o.missing_tiles) } = StoreGaps
  /\ Len(o.missing_tiles) = Cardinality(StoreGaps)
  /\ { o.pastes[k].tile : k \in 1..Len(o.pastes) } = StoreRect \ StoreGaps
  /\ Len(o.pastes) = Cardinality(StoreRect \ StoreGaps)
  /\ \A k \in 1..Len(o.pastes) :
       /\ o.pastes[k].x = (o.pastes[k].tile[1] - StoreMinCol) * o.tile_width
       /\ o.pastes[k].y = (o.pastes[k].tile[2] - StoreMinRow) * o.tile_height
  /\ o.pasted_tiles = Len(o.pastes)
  /\ o.pasted_tiles + Len(o.missing_tiles) = Cardinality(StoreRect)

\* while the loops run, every cell before (col, row) was pasted or recorded
\* as a gap, once
CellsCounted ==
  pc = "st_paste"
    => ret.pasted_tiles + Len(ret.missing_tiles)
         = (ret.col - ret.min_col) * (ret.max_row - ret.min_row + 1)
             + (ret.row - ret.min_row)

\* C11 as stated: for any non-empty styled tile set the stitcher allocates
\* the canvas of the extents, visits every cell of the rectangle, pastes the
\* readable tiles at their offsets and records every other cell once as a
\* gap, without aborting.
C11_AnyNonEmptySetIsAssembled ==
  (ret.kind = "stitch" /\ StoreKeys # {})
    => /\ \A k \in 1..Len(ret.outs) : Assembled(ret.outs[k])
       /\ CellsCounted

\* C11 amended: the same, for a tile set with at least one tile that can be
\* opened (when none can, detect_tile_size raises ValueError).
C11_SetWithOpenableTileIsAssembled ==
  (ret.kind = "stitch" /\ \E c \in StoreKeys : arg.files[c].state # "corrupt")
    => /\ \A k \in 1..Len(ret.outs) : Assembled(ret.outs[k])
       /\ CellsCounted

\* the example: tiles (0,0), (1,0), (0,1) of 256 x 256 give a canvas of
\* 512 x 512 and the one gap (1,1)
C11_Witness ==
  /\ pc = "st_done"
  /\ StoreKeys = { << 0, 0 >>, << 1, 0 >>, << 0, 1 >> }
  /\ \A c \in StoreKeys : arg.files[c] = File("ok", 256, 256)
  /\ ret.outs[1].width = 512 /\ ret.outs[1].height = 512
  /\ ret.outs[1].pasted_tiles = 3
  /\ ret.outs[1].missing_tiles = << << 1, 1 >> >>
  /\ ret.outs[1].pixels[<< 1, 0 >>].tile = << 1, 0 >>
  /\ ret.outs[1].pixels[<< 1, 1 >>] = Background

\* C12: two runs over the same tile set, whatever the order in which the
\* store lists its keys, give the same gap list and the same pixels.
C12_RunsAgree ==
  pc = "st_done"
    => /\ ret.outs[1].raised = ret.outs[2].raised
       /\ ret.outs[1].missing_tiles = ret.outs[2].missing_tiles
       /\ ret.outs[1].width = ret.outs[2].width
       /\ ret.outs[1].height = ret.outs[2].height
       /\ ret.outs[1].pixels = ret.outs[2].pixels

(* ------------------- ssim_compare.py: the comparison engine ------------ *)

\* what the engine meets for one original tile: no styled file, a pair whose
\* analysis raises, or a pair with an SSIM score (in hundredths)
PairScores == {20, 35, 85, 90}

PairKinds ==
  { [styled |-> FALSE, raises |-> FALSE, score |-> 0],
    [styled |-> TRUE, raises |-> TRUE, score |-> 0] }
  \cup { [styled |-> TRUE, raises |-> FALSE, score |-> sc] : sc \in PairScores }

\* the thresholds a caller passes: the pipeline's and the engine's default
Thresholds == {35, 85}

CompareArgs ==
  UNION { { [kind |-> "compare", ssim_threshold |-> t, original_tiles |-> o] :
              o \in [1..n -> PairKinds], t \in Thresholds } : n \in 0..MaxPairs }

\* an exact quotient num / den
Ratio(num, den) == [num |-> num, den |-> den]

RECURSIVE SumScores(_, _)

SumScores(results, n) ==
  IF n = 0 THEN 0 ELSE SumScores(results, n - 1) + results[n].ssim_score

\* (variant: the engine's default threshold is used instead of the argument)
transformation_success_default(score, ssim_threshold) == score < 85

\* analyze_tile_pair: transformation_success = ssim_score < ssim_threshold
transformation_success(score, ssim_threshold) == score < ssim_threshold

\* success_count / len(results) if results else 0
success_rate(success_count, results) ==
  IF Len(results) # 0 THEN Ratio(success_count, Len(results)) ELSE Ratio(0, 1)

\* np.mean([r['ssim_score'] for r in results]) if results else 0
average_ssim(results) ==
  IF Len(results) # 0 THEN Ratio(SumScores(results, Len(results)), Len(results))
                      ELSE Ratio(0, 1)

\* the result dict of analyze_tile_pair
analyze_tile_pair(score, ssim_threshold) ==
  [ssim_score |-> score,
   transformation_success |-> transformation_success(score, ssim_threshold)]

CompareInit ==
  /\ arg \in CompareArgs
  /\ pc = IF Len(arg.original_tiles) > 0 THEN "cmp_loop" ELSE "cmp_summary"
  /\ ret = [kind |-> "compare", idx |-> 1, results |-> << >>,
            success_count |-> 0, failed_count |-> 0, summary |-> NoCall]
  /\ PipelineIdle

\* analyze_directory, lines 204-228: one iteration of the loop over the
\* original tiles
AnalyzeNext ==
  /\ pc = "cmp_loop"
  /\ LET pair == arg.original_tiles[ret.idx]
         result == analyze_tile_pair(pair.score, arg.ssim_threshold)
         body ==
           IF ~pair.styled \/ pair.raises
             THEN ret
             ELSE [ret EXCEPT
                     !.results = Append(ret.results, result),
                     !.success_count =
                        IF result.transformation_success
                          THEN ret.success_count + 1 ELSE ret.success_count,
                     !.failed_count =
                        IF result.transformation_success
                          THEN ret.failed_count ELSE ret.failed_count + 1]
     IN  /\ ret' = [body EXCEPT !.idx = ret.idx + 1]
         /\ pc' = IF ret.idx < Len(arg.original_tiles) THEN "cmp_loop"
                                                      ELSE "cmp_summary"
  /\ UNCHANGED << pipelineVars, arg >>

\* analyze_directory, lines 230-263: the summary
Summarize ==
  /\ pc = "cmp_summary"
  /\ ret' = [ret EXCEPT !.summary =
               [total_tiles |-> Len(ret.results),
                successful_transformations |-> ret.success_count,
                failed_transformations |-> ret.failed_count,
                success_rate |-> success_rate(ret.success_count, ret.results),
                ssim_threshold |-> arg.ssim_threshold,
                average_ssim |-> average_ssim(ret.results)]]
  /\ pc' = "cmp_done"
  /\ UNCHANGED << pipelineVars, arg >>

CompareNext ==
  \/ AnalyzeNext
  \/ Summarize

CompareSpec == CompareInit /\ [][CompareNext]_vars

\* the pairs among the first n originals that have a styled file and whose
\* analysis does not raise, in order
RECURSIVE ScoredPairs(_, _)

ScoredPairs(originals, n) ==
  IF n = 0 THEN << >>
  ELSE IF originals[n].styled /\ ~originals[n].raises
         THEN Append(ScoredPairs(originals, n - 1), originals[n].score)
         ELSE ScoredPairs(originals, n - 1)

\* C14: the batch run never aborts on one pair.  Originals without a styled
\* file and pairs whose analysis raises are skipped, every other pair is
\* scored with success == (score < threshold), and the summary has
\* total == successful + failed, success_rate == successful / total and
\* average == mean of the scores; with no scored pair both are 0.
C14_BatchSummary ==
  ret.kind = "compare"
    => /\ pc \in {"cmp_loop", "cmp_summary", "cmp_done"}
       /\ pc = "cmp_loop" => ret.idx <= Len(arg.original_tiles)
       /\ LET scored == ScoredPairs(arg.original_tiles, ret.idx - 1)
          IN  /\ Len(ret.results) = Len(scored)
              /\ \A k \in 1..Len(scored) :
                   /\ ret.results[k].ssim_score = scored[k]
                   /\ ret.results[k].transformation_success
                        <=> (scored[k] < arg.ssim_threshold)
              /\ ret.success_count =
                   Cardinality({ k \in 1..Len(scored) : scored[k] < arg.ssim_threshold })
              /\ ret.success_count + ret.failed_count = Len(scored)
       /\ pc = "cmp_summary" => ret.idx = Len(arg.original_tiles) + 1
       /\ pc = "cmp_done"
            => LET sm == ret.summary
               IN  /\ sm.total_tiles = Len(ret.results)
                   /\ sm.total_tiles
                        = sm.successful_transformations + sm.failed_transformations
                   /\ sm.successful_transformations = ret.success_count
                   /\ sm.success_rate.den # 0
                   /\ sm.average_ssim.den # 0
                   /\ sm.success_rate.num * sm.total_tiles
                        = sm.successful_transformations * sm.success_rate.den
                   /\ sm.average_ssim.num * sm.total_tiles
                        = SumScores(ret.results, Len(ret.results)) * sm.average_ssim.den
                   /\ sm.total_tiles = 0
                        => sm.success_rate.num = 0 /\ sm.average_ssim.num = 0

\* a batch with a skipped original, a raising pair and a scored pair; and, as
\* a second case, a batch without any scored pair
C14_Witness ==
  /\ pc = "cmp_done"
  /\ Len(arg.original_tiles) = 3
  /\ \E a, b, c \in 1..3 :
       /\ ~arg.original_tiles[a].styled
       /\ arg.original_tiles[b].raises
       /\ arg.original_tiles[c].styled /\ ~arg.original_tiles[c].raises
       /\ arg.original_tiles[c].score = arg.ssim_threshold
  /\ ret.summary.total_tiles = 1
  /\ ret.summary.failed_transformations = 1

(* ------------------------- main: outcome counters ---------------------- *)

\* the tiles main has entered: the tile being processed, or the tile that
\* killed the program, is the (i + 1)-th
TilesVisited == IF pc \in {"generate", "aborted"} THEN i + 1 ELSE i

\* C15: every tile contributes to exactly one outcome counter: whenever no
\* tile is in the middle of its iteration, successful_tiles + failed_tiles is
\* the number of tiles visited so far (fetch failure and exhaustion counted as
\* failed); after the batch the sum is total_tiles, and the division of the
\* summary is defined.
C15_EveryTileCounted ==
  /\ pc # "generate" => successful_tiles + failed_tiles = TilesVisited
  /\ pc \in {"summary", "done"} => successful_tiles + failed_tiles = total_tiles
  /\ pc = "done" => total_tiles # 0
  /\ error # "ZeroDivisionError"

====
